---- MODULE Spec2Model ----
(***************************************************************************)
(* Model of cf.py: a command-line script that checks three credentials,    *)
(* dispatches on --history / --help, parses the remaining tokens into a    *)
(* prompt, then runs generate -> decode -> upload -> preview -> record,    *)
(* appending one entry to cf_history.json on success.                      *)
(*                                                                         *)
(* One invocation of the script is a walk of pc from "START" to one of the *)
(* terminal values "EXITED" (sys.exit before the pipeline), "DONE" (the    *)
(* script ran off its end) or "FAILED" (the outer except).  The history    *)
(* file and the preview file outlive an invocation.                        *)
(***************************************************************************)
EXTENDS Naturals, Sequences, FiniteSets, TLC

(***************************************************************************)
(* Bounds of the model.                                                    *)
(***************************************************************************)
\* longest enumerated command line (tokens after the program name)
MaxArgs == 3
\* number of invocations in a row in SpecRuns
MaxRuns == 3

(***************************************************************************)
(* Values.                                                                 *)
(***************************************************************************)
\* Python's None (os.environ.get of an unset variable, expire_time default)
PyNone == "<None>"

\* argv[0]
ProgName == "cf.py"

Tokens == {"--wide", "--expire", "24h", "30d", "--history", "--help", "fox"}

SeqsUpTo(S, n) == UNION {[1..k -> S] : k \in 0..n}

\* a command line that uses every option of the usage line at once
ExampleArgv == <<"--wide", "--expire", "30d", "sunset", "over", "dunes">>

\* command lines of a single invocation
ArgvInputs == SeqsUpTo(Tokens, MaxArgs) \cup {ExampleArgv}

\* command lines of the invocations that follow one another in SpecRuns
RunArgv ==
    { <<"fox">>, <<"--wide", "fox">>, <<"--expire", "30d", "fox">>,
      <<"--history">>, <<"--help">>, <<>> }

\* an environment variable: unset, set to the empty string, set
CredValues == {PyNone, "", "key"}

\* base64 text returned by the generation API: well formed, well formed with a
\* character outside the alphabet (discarded by b64decode), wrongly padded
B64Inputs ==
    { <<"Q", "Q", "=", "=">>, <<"Q", "!", "Q", "=", "=">>, <<"Q", "Q", "=">> }

\* the "variants" list of the upload response
VariantInputs == { <<>>, <<"u1">>, <<"u2", "u1">> }

\* the renderers probed with `command -v`, in the order of the probes
Renderers == <<"kitten", "viu", "chafa">>

VARIABLES
    openai_api_key,         \* os.environ.get("OPENAI_API_KEY")
    cloudflare_api_token,   \* os.environ.get("CLOUDFLARE_API_TOKEN")
    cloudflare_account_id,  \* os.environ.get("CLOUDFLARE_ACCOUNT_ID")
    sys_argv,               \* sys.argv, program name first
    history_file,           \* cf_history.json: [exists, content (JSON lexemes)]
    tmp_file,               \* /tmp/cf_image.png: <<"absent">>, <<"raw">>, <<"png", w, h>>
    now,                    \* the wall clock read by datetime.now()
    pc,                     \* stage of the current invocation
    exit_status,            \* <<>> while running, then <<0>> or <<1>>
    branch,                 \* which branch of the script the invocation took
    is_wide,
    expire_time,
    args,
    description,
    image_size,
    image_b64,
    image_data,
    metadata_expiry,        \* cloudflare_data["metadata"]["expiry"] as sent
    image_url,
    preview,                \* how Step 5 ended
    console,                \* what console.print wrote, one tuple per message
    requests,               \* HTTP requests issued, in order
    responses,              \* what came back for each of them, in order
    file_ops,               \* reads and writes of the two files, in order
    failed_stage,           \* stage whose exception reached the outer except
    history_before,         \* history_file when the invocation started
    successes               \* entries built by the runs that reached "DONE"

vars ==
    << openai_api_key, cloudflare_api_token, cloudflare_account_id, sys_argv,
       history_file, tmp_file, now, pc, exit_status, branch, is_wide,
       expire_time, args, description, image_size, image_b64, image_data,
       metadata_expiry, image_url, preview, console, requests, responses,
       file_ops, failed_stage, history_before, successes >>

env_vars == << openai_api_key, cloudflare_api_token, cloudflare_account_id >>

parse_vars == << is_wide, expire_time, args, description, image_size >>

pipeline_vars == << image_b64, image_data, metadata_expiry, image_url, preview >>

(***************************************************************************)
(* Python helpers.                                                         *)
(***************************************************************************)
\* a test for None alone, which lets the empty string through
TruthyNotNone(v) == v # PyNone

\* truthiness of a str-or-None value
Truthy(v) == v # PyNone /\ v # ""

\* all([...]) over a list of values
All(vs) == \A i \in 1..Len(vs) : Truthy(vs[i])

\* x or d
Or(x, d) == IF Truthy(x) THEN x ELSE d

\* tok in xs
In(tok, xs) == \E i \in 1..Len(xs) : xs[i] = tok

\* " ".join(xs)
RECURSIVE Join(_)
Join(xs) ==
    IF xs = <<>> THEN ""
    ELSE IF Len(xs) = 1 THEN xs[1]
    ELSE xs[1] \o " " \o Join(Tail(xs))

\* datetime.now().strftime("%Y-%m-%d %H:%M:%S"), one second per tick of now
Strftime(t) == "2025-01-01 00:00:0" \o ToString(t)

(***************************************************************************)
(* Lines 64-73: the option removal loop.  i is Python's loop variable, so  *)
(* Python's sys.argv[i + 1] is argv[i + 2] here (sequences start at 1).    *)
(* The result is the pair of args and expire_time after the loop.          *)
(***************************************************************************)
\* a loop that always skips the token after --expire
RECURSIVE RemoveOptionsConsume(_, _, _, _)
RemoveOptionsConsume(argv, i, acc, exp) ==
    IF i >= Len(argv) - 1 THEN [args |-> acc, expire_time |-> exp]
    ELSE IF argv[i + 2] = "--wide" THEN RemoveOptionsConsume(argv, i + 1, acc, exp)
    ELSE IF argv[i + 2] = "--expire" THEN
        IF i + 2 < Len(argv) /\ argv[i + 3] \in {"24h", "30d"}
        THEN RemoveOptionsConsume(argv, i + 2, acc, argv[i + 3])
        ELSE RemoveOptionsConsume(argv, i + 2, acc, exp)
    ELSE RemoveOptionsConsume(argv, i + 1, Append(acc, argv[i + 2]), exp)

RECURSIVE RemoveOptions(_, _, _, _)
RemoveOptions(argv, i, acc, exp) ==
    IF i >= Len(argv) - 1 THEN [args |-> acc, expire_time |-> exp]
    ELSE IF argv[i + 2] = "--wide" THEN RemoveOptions(argv, i + 1, acc, exp)
    ELSE IF argv[i + 2] = "--expire" THEN
        IF i + 2 < Len(argv) /\ argv[i + 3] \in {"24h", "30d"}
        THEN RemoveOptions(argv, i + 1, acc, argv[i + 3])
        ELSE RemoveOptions(argv, i + 1, acc, exp)
    ELSE RemoveOptions(argv, i + 1, Append(acc, argv[i + 2]), exp)

\* line 84
ImageSize(wide) == IF wide THEN "1792x1024" ELSE "1024x1024"

\* line 157
PreviewSize(wide) == IF wide THEN <<80, 40>> ELSE <<60, 50>>

(***************************************************************************)
(* JSON as the script uses it: a list of dicts of strings.  A dict is a    *)
(* sequence of <<key, value>> pairs in insertion order; a file's content   *)
(* is the sequence of lexemes json.dump writes (white space left out).     *)
(***************************************************************************)
LBracket == <<"punct", "[">>
RBracket == <<"punct", "]">>
LBrace == <<"punct", "{">>
RBrace == <<"punct", "}">>
Colon == <<"punct", ":">>
Comma == <<"punct", ",">>
Str(s) == <<"string", s>>
IsStr(lx) == lx[1] = "string"

RECURSIVE DumpMembers(_)
DumpMembers(d) ==
    IF d = <<>> THEN <<>>
    ELSE << Str(d[1][1]), Colon, Str(d[1][2]) >>
         \o (IF Len(d) = 1 THEN <<>> ELSE <<Comma>> \o DumpMembers(Tail(d)))

DumpDict(d) == <<LBrace>> \o DumpMembers(d) \o <<RBrace>>

RECURSIVE DumpElements(_)
DumpElements(h) ==
    IF h = <<>> THEN <<>>
    ELSE DumpDict(h[1])
         \o (IF Len(h) = 1 THEN <<>> ELSE <<Comma>> \o DumpElements(Tail(h)))

\* json.dump(history, f, indent=4)
JsonDump(h) == <<LBracket>> \o DumpElements(h) \o <<RBracket>>

At(toks, p) == IF p <= Len(toks) THEN toks[p] ELSE <<"eof", "">>

JsonError == [ok |-> FALSE, value |-> <<>>, pos |-> 0]

\* d[k] = v on a dict
DictSet(d, k, v) ==
    IF \E i \in 1..Len(d) : d[i][1] = k
    THEN [i \in 1..Len(d) |-> IF d[i][1] = k THEN <<k, v>> ELSE d[i]]
    ELSE Append(d, <<k, v>>)

HasKey(d, k) == \E i \in 1..Len(d) : d[i][1] = k

\* d[k], for a key that is present
Get(d, k) == d[CHOOSE i \in 1..Len(d) : d[i][1] = k][2]

\* members of an object from position p, up to and including the closing brace
RECURSIVE ParseMembers(_, _, _)
ParseMembers(toks, p, acc) ==
    IF IsStr(At(toks, p)) /\ At(toks, p + 1) = Colon /\ IsStr(At(toks, p + 2))
    THEN LET d == DictSet(acc, At(toks, p)[2], At(toks, p + 2)[2])
         IN  IF At(toks, p + 3) = Comma THEN ParseMembers(toks, p + 4, d)
             ELSE IF At(toks, p + 3) = RBrace
                  THEN [ok |-> TRUE, value |-> d, pos |-> p + 4]
                  ELSE JsonError
    ELSE JsonError

ParseDict(toks, p) ==
    IF At(toks, p) # LBrace THEN JsonError
    ELSE IF At(toks, p + 1) = RBrace
         THEN [ok |-> TRUE, value |-> <<>>, pos |-> p + 2]
         ELSE ParseMembers(toks, p + 1, <<>>)

\* elements of an array from position p, up to and including the closing bracket
RECURSIVE ParseElements(_, _, _)
ParseElements(toks, p, acc) ==
    LET e == ParseDict(toks, p)
    IN  IF ~e.ok THEN JsonError
        ELSE IF At(toks, e.pos) = Comma
             THEN ParseElements(toks, e.pos + 1, Append(acc, e.value))
             ELSE IF At(toks, e.pos) = RBracket
                  THEN [ok |-> TRUE, value |-> Append(acc, e.value),
                        pos |-> e.pos + 1]
                  ELSE JsonError

\* json.load(f): ok is FALSE where json.load raises
JsonLoad(toks) ==
    LET r == IF At(toks, 1) # LBracket THEN JsonError
             ELSE IF At(toks, 2) = RBracket
                  THEN [ok |-> TRUE, value |-> <<>>, pos |-> 3]
                  ELSE ParseElements(toks, 2, <<>>)
    IN  IF r.ok /\ r.pos = Len(toks) + 1 THEN r ELSE JsonError

NoFile == [exists |-> FALSE, content |-> <<>>]

FileOf(h) == [exists |-> TRUE, content |-> JsonDump(h)]

\* lines 178-183
HistoryEntry(date, prompt, url, expiry) ==
    << <<"date", date>>, <<"prompt", prompt>>, <<"url", url>>,
       <<"expiry", expiry>> >>

\* lines 42-45: the three lines printed for one entry; entry[...] raises
\* KeyError for a missing key
Printable(entry) == \A k \in {"date", "prompt", "url", "expiry"} : HasKey(entry, k)

PrintEntry(entry) ==
    << "entry", Get(entry, "date"), Get(entry, "prompt"), Get(entry, "url"),
       Get(entry, "expiry") >>

PrintEntries(h) == [i \in 1..Len(h) |-> PrintEntry(h[i])]

\* a history file left by an earlier successful run of `cf.py fox`
EarlierHistory == << HistoryEntry(Strftime(0), "fox", "u1", "None") >>

EarlierFile == FileOf(EarlierHistory)

\* history.insert(0, entry) in place of history.append(entry)
PrependEntry(history, entry) == <<entry>> \o history

\* line 194
AppendEntry(history, entry) == Append(history, entry)

\* base64.b64decode(s): characters outside the alphabet are discarded, then the
\* length must be a multiple of four; the value is the text before the padding
B64Alphabet == {"Q", "="}

B64Decode(s) ==
    LET kept == SelectSeq(s, LAMBDA c : c \in B64Alphabet)
    IN  IF Len(kept) % 4 # 0 THEN [ok |-> FALSE, bytes |-> <<>>]
        ELSE [ok |-> TRUE, bytes |-> SelectSeq(kept, LAMBDA c : c # "=")]

\* responses of the generation API, body being the b64_json of each element of
\* data: HTTP error, success with an empty list, success with one image
GenResponses ==
    { [ok |-> FALSE, body |-> <<>>], [ok |-> TRUE, body |-> <<>>] }
    \cup { [ok |-> TRUE, body |-> <<b>>] : b \in B64Inputs }

\* responses of the upload API, body being result.variants
UploadResponses ==
    { [ok |-> FALSE, body |-> <<>>] }
    \cup { [ok |-> TRUE, body |-> v] : v \in VariantInputs }

\* which statement of Step 5 raises, if any
PreviewFaults ==
    {"none", "download_failed", "write_failed", "open_failed", "resize_failed"}

\* lines 163-170: the first renderer whose probe succeeds
FirstAvailable(installed) ==
    IF \E i \in 1..Len(Renderers) : Renderers[i] \in installed
    THEN Renderers[CHOOSE i \in 1..Len(Renderers) :
                      /\ Renderers[i] \in installed
                      /\ \A j \in 1..(i - 1) : Renderers[j] \notin installed]
    ELSE "no_renderer"

\* what can go wrong with the two files in Step 6
RecordOutcomes == {"ok", "read_error", "write_error"}

Terminal == {"EXITED", "DONE", "FAILED"}

(***************************************************************************)
(* Initial states.                                                         *)
(***************************************************************************)
\* the state of the script's variables before the first statement runs
Fresh ==
    /\ pc = "START"
    /\ exit_status = <<>>
    /\ branch = "none"
    /\ is_wide = FALSE
    /\ expire_time = PyNone
    /\ args = <<>>
    /\ description = ""
    /\ image_size = ""
    /\ image_b64 = <<>>
    /\ image_data = <<>>
    /\ metadata_expiry = ""
    /\ image_url = ""
    /\ preview = "none"
    /\ console = <<>>
    /\ requests = <<>>
    /\ responses = <<>>
    /\ file_ops = <<>>
    /\ failed_stage = ""

Environ ==
    /\ openai_api_key \in CredValues
    /\ cloudflare_api_token \in CredValues
    /\ cloudflare_account_id \in CredValues

\* one invocation, any command line, with or without an earlier history file
Init ==
    /\ Environ
    /\ sys_argv \in {<<ProgName>> \o a : a \in ArgvInputs}
    /\ history_file \in {NoFile, EarlierFile}
    /\ history_before = history_file
    /\ successes = IF history_file.exists THEN EarlierHistory ELSE <<>>
    /\ tmp_file = <<"absent">>
    /\ now = 1
    /\ Fresh

\* the first of several invocations, before any history exists
InitRuns ==
    /\ Environ
    /\ sys_argv \in {<<ProgName>> \o a : a \in RunArgv}
    /\ history_file = NoFile
    /\ history_before = history_file
    /\ successes = <<>>
    /\ tmp_file = <<"absent">>
    /\ now = 1
    /\ Fresh

(***************************************************************************)
(* The script, stage by stage.                                             *)
(***************************************************************************)
\* sys.exit(code) before the pipeline
Exit(code, br, msg) ==
    /\ pc' = "EXITED"
    /\ exit_status' = <<code>>
    /\ branch' = br
    /\ console' = console \o msg

\* an outer except that reports the error and lets the script end normally
ExceptNoExit(stage) ==
    /\ pc' = "FAILED"
    /\ exit_status' = <<0>>
    /\ failed_stage' = stage
    /\ console' = Append(console, <<"error", "Unexpected Error">>)

\* lines 199-201: an exception of stage reaches the outer except
Except(stage) ==
    /\ pc' = "FAILED"
    /\ exit_status' = <<1>>
    /\ failed_stage' = stage
    /\ console' = Append(console, <<"error", "Unexpected Error">>)

\* lines 26-32
CheckCredentials ==
    /\ pc = "START"
    /\ IF ~All(<<openai_api_key, cloudflare_api_token, cloudflare_account_id>>)
       THEN Exit(1, "config_error", << <<"error", "Missing API keys">> >>)
       ELSE /\ pc' = "DISPATCH"
            /\ UNCHANGED <<exit_status, branch, console>>
    /\ UNCHANGED << env_vars, sys_argv, history_file, tmp_file, now, parse_vars,
                    pipeline_vars, requests, responses, file_ops, failed_stage,
                    history_before, successes >>

\* lines 35-46; an exception of json.load or of entry[...] is not caught here
\* and ends the interpreter with status 1
HistoryBranch ==
    /\ pc = "DISPATCH"
    /\ In("--history", sys_argv)
    /\ IF ~history_file.exists
       THEN /\ Exit(0, "history", << <<"warn", "No history found.">> >>)
            /\ UNCHANGED file_ops
       ELSE LET r == JsonLoad(history_file.content)
                head == << <<"info", "Past Image Generations:">> >>
            IN  /\ file_ops' = Append(file_ops, <<"read", "history">>)
                /\ IF ~r.ok
                   THEN Exit(1, "history", << <<"traceback", "JSONDecodeError">> >>)
                   ELSE IF \A i \in 1..Len(r.value) : Printable(r.value[i])
                        THEN Exit(0, "history", head \o PrintEntries(r.value))
                        ELSE Exit(1, "history",
                                  head \o << <<"traceback", "KeyError">> >>)
    /\ UNCHANGED << env_vars, sys_argv, history_file, tmp_file, now, parse_vars,
                    pipeline_vars, requests, responses, failed_stage,
                    history_before, successes >>

\* the help test placed ahead of the history test
HelpBranchFirst ==
    /\ pc = "DISPATCH"
    /\ In("--help", sys_argv)
    /\ Exit(0, "help", << <<"info", "Usage:">> >>)
    /\ UNCHANGED << env_vars, sys_argv, history_file, tmp_file, now, parse_vars,
                    pipeline_vars, requests, responses, file_ops, failed_stage,
                    history_before, successes >>

\* lines 49-58
HelpBranch ==
    /\ pc = "DISPATCH"
    /\ ~In("--history", sys_argv)
    /\ In("--help", sys_argv)
    /\ Exit(0, "help", << <<"info", "Usage:">> >>)
    /\ UNCHANGED << env_vars, sys_argv, history_file, tmp_file, now, parse_vars,
                    pipeline_vars, requests, responses, file_ops, failed_stage,
                    history_before, successes >>

\* lines 60-84
ParseArgs ==
    /\ pc = "DISPATCH"
    /\ ~In("--history", sys_argv)
    /\ ~In("--help", sys_argv)
    /\ LET r == RemoveOptions(sys_argv, 0, <<>>, PyNone)
       IN  /\ is_wide' = In("--wide", sys_argv)
           /\ expire_time' = r.expire_time
           /\ args' = r.args
           /\ IF Len(r.args) < 1
              THEN /\ Exit(1, "usage_error",
                           << <<"error", "Missing image description.">> >>)
                   /\ UNCHANGED <<description, image_size>>
              ELSE /\ description' = Join(r.args)
                   /\ image_size' = ImageSize(is_wide')
                   /\ pc' = "GENERATING"
                   /\ branch' = "generate"
                   /\ UNCHANGED <<exit_status, console>>
    /\ UNCHANGED << env_vars, sys_argv, history_file, tmp_file, now,
                    pipeline_vars, requests, responses, file_ops, failed_stage,
                    history_before, successes >>

\* lines 89-109: Step 1, the generation request
Generate ==
    /\ pc = "GENERATING"
    /\ requests' = Append(requests, <<"POST", "openai", description, image_size>>)
    /\ \E resp \in GenResponses :
         /\ responses' = Append(responses, resp)
         /\ IF ~resp.ok \/ resp.body = <<>>
            THEN /\ Except("GENERATING")
                 /\ UNCHANGED image_b64
            ELSE /\ image_b64' = resp.body[1]
                 /\ pc' = "DECODING"
                 /\ UNCHANGED <<exit_status, failed_stage, console>>
    /\ UNCHANGED << env_vars, sys_argv, history_file, tmp_file, now, branch,
                    parse_vars, image_data, metadata_expiry, image_url, preview,
                    file_ops, history_before, successes >>

\* a decode step whose error is swallowed, the upload going ahead without data
DecodeIgnoreError ==
    /\ pc = "DECODING"
    /\ image_data' = B64Decode(image_b64).bytes
    /\ pc' = "UPLOADING"
    /\ UNCHANGED << env_vars, sys_argv, history_file, tmp_file, now, branch,
                    parse_vars, image_b64, metadata_expiry, image_url, preview,
                    requests, responses, file_ops, history_before, successes,
                    exit_status, failed_stage, console >>

\* lines 111-112: Step 2
Decode ==
    /\ pc = "DECODING"
    /\ LET d == B64Decode(image_b64)
       IN  IF ~d.ok
           THEN /\ Except("DECODING")
                /\ UNCHANGED image_data
           ELSE /\ image_data' = d.bytes
                /\ pc' = "UPLOADING"
                /\ UNCHANGED <<exit_status, failed_stage, console>>
    /\ UNCHANGED << env_vars, sys_argv, history_file, tmp_file, now, branch,
                    parse_vars, image_b64, metadata_expiry, image_url, preview,
                    requests, responses, file_ops, history_before, successes >>

\* lines 114-140: Step 3, the upload request, and Step 4, printing the URL
Upload ==
    /\ pc = "UPLOADING"
    /\ metadata_expiry' = Or(expire_time, "none")
    /\ requests' =
         Append(requests, <<"POST", "cloudflare", image_data, metadata_expiry'>>)
    /\ \E resp \in UploadResponses :
         /\ responses' = Append(responses, resp)
         /\ IF ~resp.ok \/ resp.body = <<>>
            THEN /\ Except("UPLOADING")
                 /\ UNCHANGED image_url
            ELSE /\ image_url' = resp.body[1]
                 /\ console' =
                      console \o << <<"url", image_url'>> >>
                      \o (IF Truthy(expire_time)
                          THEN << <<"note", expire_time>> >> ELSE <<>>)
                 /\ pc' = "PREVIEWING"
                 /\ UNCHANGED <<exit_status, failed_stage>>
    /\ UNCHANGED << env_vars, sys_argv, history_file, tmp_file, now, branch,
                    parse_vars, image_b64, image_data, preview, file_ops,
                    history_before, successes >>

\* lines 142-173: Step 5.  Only requests.exceptions.RequestException is caught
\* by the inner except; os.system returns a status and never raises.
Preview ==
    /\ pc = "PREVIEWING"
    /\ requests' = Append(requests, <<"GET", image_url>>)
    /\ \E fault \in PreviewFaults,
          installed \in SUBSET {Renderers[i] : i \in 1..Len(Renderers)},
          status \in {0, 1} :
         IF fault = "download_failed"
         THEN /\ preview' = fault
              /\ console' = Append(console, <<"error", "Error displaying image">>)
              /\ pc' = "RECORDING"
              /\ UNCHANGED <<tmp_file, file_ops, exit_status, failed_stage>>
         ELSE IF fault = "write_failed"
         THEN /\ preview' = fault
              /\ Except("PREVIEWING")
              /\ UNCHANGED <<tmp_file, file_ops>>
         ELSE IF fault \in {"open_failed", "resize_failed"}
         THEN /\ preview' = fault
              /\ tmp_file' = <<"raw">>
              /\ file_ops' = Append(file_ops, <<"write", "preview">>)
              /\ Except("PREVIEWING")
         ELSE /\ tmp_file' = <<"png">> \o PreviewSize(is_wide)
              /\ file_ops' = file_ops \o << <<"write", "preview">>,
                                            <<"write", "preview">> >>
              /\ IF FirstAvailable(installed) = "no_renderer"
                 THEN /\ preview' = "no_renderer"
                      /\ console' = Append(console, <<"hint", "Install a renderer">>)
                 ELSE /\ preview' = IF status = 0 THEN "rendered" ELSE "render_failed"
                      /\ console' =
                           Append(console, <<"render", FirstAvailable(installed)>>)
              /\ pc' = "RECORDING"
              /\ UNCHANGED <<exit_status, failed_stage>>
    /\ UNCHANGED << env_vars, sys_argv, history_file, now, branch, parse_vars,
                    image_b64, image_data, metadata_expiry, image_url,
                    responses, history_before, successes >>

\* lines 175-197: Step 6.  A failed open leaves the file as it was.
Record ==
    /\ pc = "RECORDING"
    /\ LET final_expiry == Or(expire_time, "None")
           history_entry ==
               HistoryEntry(Strftime(now), description, image_url, final_expiry)
           r == JsonLoad(history_file.content)
           history == IF history_file.exists THEN r.value ELSE <<>>
       IN  /\ \E io \in RecordOutcomes :
                /\ io = "read_error" => history_file.exists
                /\ IF io = "read_error" \/ (history_file.exists /\ ~r.ok)
                   THEN /\ file_ops' = Append(file_ops, <<"read", "history">>)
                        /\ Except("RECORDING")
                        /\ UNCHANGED <<history_file, successes>>
                   ELSE IF io = "write_error"
                   THEN /\ file_ops' =
                             IF history_file.exists
                             THEN Append(file_ops, <<"read", "history">>)
                             ELSE file_ops
                        /\ Except("RECORDING")
                        /\ UNCHANGED <<history_file, successes>>
                   ELSE /\ history_file' = FileOf(AppendEntry(history, history_entry))
                        /\ successes' = Append(successes, history_entry)
                        /\ file_ops' =
                             (IF history_file.exists
                              THEN Append(file_ops, <<"read", "history">>)
                              ELSE file_ops) \o << <<"write", "history">> >>
                        /\ pc' = "DONE"
                        /\ exit_status' = <<0>>
                        /\ UNCHANGED <<failed_stage, console>>
    /\ UNCHANGED << env_vars, sys_argv, tmp_file, now, branch, parse_vars,
                    pipeline_vars, requests, responses, history_before >>

\* the user runs the script again; the environment stays as it is
NextInvocation ==
    /\ pc \in Terminal
    /\ now < MaxRuns
    /\ now' = now + 1
    /\ sys_argv' \in {<<ProgName>> \o a : a \in RunArgv}
    /\ history_before' = history_file
    /\ pc' = "START"
    /\ exit_status' = <<>>
    /\ branch' = "none"
    /\ is_wide' = FALSE
    /\ expire_time' = PyNone
    /\ args' = <<>>
    /\ description' = ""
    /\ image_size' = ""
    /\ image_b64' = <<>>
    /\ image_data' = <<>>
    /\ metadata_expiry' = ""
    /\ image_url' = ""
    /\ preview' = "none"
    /\ console' = <<>>
    /\ requests' = <<>>
    /\ responses' = <<>>
    /\ file_ops' = <<>>
    /\ failed_stage' = ""
    /\ UNCHANGED <<env_vars, history_file, tmp_file, successes>>

Next ==
    \/ CheckCredentials
    \/ HistoryBranch
    \/ HelpBranch
    \/ ParseArgs
    \/ Generate
    \/ Decode
    \/ Upload
    \/ Preview
    \/ Record

NextRuns ==
    \/ Next
    \/ NextInvocation

\* one invocation of the script
Spec == Init /\ [][Next]_vars

\* up to MaxRuns invocations, one after the other
SpecRuns == InitRuns /\ [][NextRuns]_vars

TypeOK ==
    /\ pc \in {"START", "DISPATCH", "GENERATING", "DECODING", "UPLOADING",
               "PREVIEWING", "RECORDING"} \cup Terminal
    /\ exit_status \in {<<>>, <<0>>, <<1>>}
    /\ (pc \in Terminal) = (exit_status # <<>>)
    /\ history_file.exists => JsonLoad(history_file.content).ok

(***************************************************************************)
(* What the claims speak of, said without the script's own helpers.        *)
(***************************************************************************)
\* the command-line tokens, program name left out
tokens == Tail(sys_argv)

HasToken(tok) == \E i \in 1..Len(tokens) : tokens[i] = tok

ExpiryLiterals == {"24h", "30d"}

MissingCredential ==
    \E c \in {openai_api_key, cloudflare_api_token, cloudflare_account_id} :
        c = PyNone \/ c = ""

\* the credentials were accepted and the command line asks for a generation
OnGenerateBranch ==
    /\ ~MissingCredential
    /\ ~HasToken("--history")
    /\ ~HasToken("--help")
    /\ pc \notin {"START", "DISPATCH"}

\* the tokens left once every --wide, every --expire and every 24h/30d that
\* immediately follows an --expire are removed
RECURSIVE Strip(_)
Strip(t) ==
    IF t = <<>> THEN <<>>
    ELSE IF t[1] = "--wide" THEN Strip(Tail(t))
    ELSE IF t[1] = "--expire" THEN
        IF Len(t) >= 2 /\ t[2] \in ExpiryLiterals
        THEN Strip(Tail(Tail(t)))
        ELSE Strip(Tail(t))
    ELSE <<t[1]>> \o Strip(Tail(t))

\* some --expire is immediately followed by 24h or 30d
ExpiryGiven ==
    \E i \in 1..Len(tokens) - 1 :
        tokens[i] = "--expire" /\ tokens[i + 1] \in ExpiryLiterals

\* xs can be obtained from ys by deleting elements
RECURSIVE IsSubseq(_, _)
IsSubseq(xs, ys) ==
    IF xs = <<>> THEN TRUE
    ELSE IF ys = <<>> THEN FALSE
    ELSE IF xs[1] = ys[1] THEN IsSubseq(Tail(xs), Tail(ys))
    ELSE IsSubseq(xs, Tail(ys))

Requests(kind, host) ==
    {i \in 1..Len(requests) : requests[i][1] = kind /\ requests[i][2] = host}

Wrote(file) == \E i \in 1..Len(file_ops) : file_ops[i] = <<"write", file>>

Touched(file) == \E i \in 1..Len(file_ops) : file_ops[i][2] = file

\* the generation request was answered with an error or without an image
GenerationFailed ==
    /\ Len(responses) >= 1
    /\ ~responses[1].ok \/ responses[1].body = <<>>

\* the decode step ran on text that is not base64
DecodeFailed ==
    /\ image_b64 # <<>>
    /\ pc # "DECODING"
    /\ ~B64Decode(image_b64).ok

\* the upload request was answered with an error or without a variant
UploadFailed ==
    /\ Len(responses) >= 2
    /\ ~responses[2].ok \/ responses[2].body = <<>>

PreviewFailures ==
    { "download_failed", "write_failed", "open_failed", "resize_failed",
      "render_failed" }

\* the entries a file holds, [] for an absent file
Entries(file) == IF file.exists THEN JsonLoad(file.content).value ELSE <<>>

Valid(file) == file.exists => JsonLoad(file.content).ok

(***************************************************************************)
(* C1: on the generate branch, when the generation request, the base64     *)
(* decode or the upload request fails, the run ends with exit status 1 and *)
(* the history file is exactly what it was before the run.                 *)
(***************************************************************************)
C1_FailedRunLeavesHistory ==
    (GenerationFailed \/ DecodeFailed \/ UploadFailed) =>
        /\ OnGenerateBranch
        /\ pc = "FAILED"
        /\ exit_status = <<1>>
        /\ history_file = history_before
        /\ ~Wrote("history")

C1_Witness ==
    /\ UploadFailed
    /\ pc = "FAILED"
    /\ history_file.exists
    /\ history_file = history_before

(***************************************************************************)
(* C2: a failure of the preview step, whatever its cause (download, write  *)
(* or open of the temporary file, resize, renderer), is caught locally:    *)
(* the run goes on to record the entry and exits with status 0.            *)
(***************************************************************************)
C2_PreviewFailureIsCaught ==
    preview \in PreviewFailures =>
        /\ failed_stage # "PREVIEWING"
        /\ pc \in {"RECORDING", "DONE", "FAILED"}
        /\ pc = "DONE" =>
              /\ exit_status = <<0>>
              /\ Len(Entries(history_file)) = Len(Entries(history_before)) + 1

(***************************************************************************)
(* C3: a successful run that starts from an absent or valid history file   *)
(* holding H leaves it holding H followed by one new entry {date, prompt,  *)
(* url, expiry}; after N successful runs from an absent file --history     *)
(* lists exactly these N entries, in order, with the values recorded.      *)
(***************************************************************************)
C3_AppendThenList ==
    /\ (pc = "DONE" /\ Valid(history_before)) =>
          LET H == Entries(history_before)
              e == Entries(history_file)[Len(H) + 1]
          IN  /\ Valid(history_file)
              /\ history_file.exists
              /\ Len(Entries(history_file)) = Len(H) + 1
              /\ SubSeq(Entries(history_file), 1, Len(H)) = H
              /\ {e[i][1] : i \in 1..Len(e)} = {"date", "prompt", "url", "expiry"}
              /\ Len(e) = 4
              /\ Get(e, "prompt") = description
              /\ Get(e, "url") = image_url
              /\ e = successes[Len(successes)]
    /\ (branch = "history" /\ pc = "EXITED") =>
          /\ exit_status = <<0>>
          /\ IF successes = <<>>
             THEN console = << <<"warn", "No history found.">> >>
             ELSE console =
                    << <<"info", "Past Image Generations:">> >>
                    \o [i \in 1..Len(successes) |->
                          << "entry", Get(successes[i], "date"),
                             Get(successes[i], "prompt"),
                             Get(successes[i], "url"),
                             Get(successes[i], "expiry") >>]

C3_Witness ==
    /\ branch = "history"
    /\ pc = "EXITED"
    /\ Len(successes) >= 2
    /\ Len(console) = Len(successes) + 1
    /\ Get(successes[1], "prompt") # Get(successes[2], "prompt")

(***************************************************************************)
(* C4: the prompt is the space-joined sequence of the tokens left after    *)
(* removing every --wide, every --expire and the 24h/30d that immediately  *)
(* follows an --expire; `--wide --expire 30d sunset over dunes` gives the  *)
(* prompt "sunset over dunes", the wide size and the expiry "30d".         *)
(***************************************************************************)
C4_PromptIsStrippedTokens ==
    OnGenerateBranch =>
        /\ args = Strip(tokens)
        /\ branch = "generate" => description = Join(Strip(tokens))
        /\ tokens = ExampleArgv =>
              /\ description = "sunset over dunes"
              /\ image_size = "1792x1024"
              /\ expire_time = "30d"

(***************************************************************************)
(* C5: the expiry of the recorded entry is one of "none", "24h", "30d":    *)
(* the literal when the tokens hold --expire 24h or --expire 30d, and      *)
(* otherwise "none", the sentinel that is also sent as upload metadata.    *)
(***************************************************************************)
C5_RecordedExpiry ==
    pc = "DONE" =>
        LET recorded == Get(successes[Len(successes)], "expiry")
        IN  /\ recorded \in {"none", "24h", "30d"}
            /\ ExpiryGiven => recorded \in ExpiryLiterals
            /\ ~ExpiryGiven => recorded = "none"
            /\ recorded = metadata_expiry

(***************************************************************************)
(* C6: an --expire followed by a token other than 24h or 30d, or by        *)
(* nothing, is dropped without setting the expiry and without consuming    *)
(* the token after it, which stays in the prompt where it was.             *)
(***************************************************************************)
C6_UnrecognisedExpiry ==
    OnGenerateBranch =>
        /\ ~ExpiryGiven => (expire_time = PyNone /\ metadata_expiry \in {"", "none"})
        /\ expire_time # PyNone =>
              \E j \in 1..Len(tokens) - 1 :
                  tokens[j] = "--expire" /\ tokens[j + 1] = expire_time
        /\ \A k \in 1..Len(args) : args[k] # "--expire"
        /\ \A i \in 1..Len(tokens) :
              (/\ tokens[i] = "--expire"
               /\ i < Len(tokens)
               /\ tokens[i + 1] \notin ExpiryLiterals \cup {"--wide", "--expire"}) =>
                  /\ branch = "generate"
                  /\ \E k \in 1..Len(args) :
                        /\ args[k] = tokens[i + 1]
                        /\ IsSubseq(SubSeq(args, 1, k - 1), SubSeq(tokens, 1, i))
                        /\ IsSubseq(SubSeq(args, k + 1, Len(args)),
                                    SubSeq(tokens, i + 2, Len(tokens)))

C6_Witness ==
    /\ sys_argv = <<ProgName, "24h", "--expire", "fox">>
    /\ args = <<"24h", "fox">>
    /\ description = "24h fox"
    /\ expire_time = PyNone
    /\ pc = "DONE"

(***************************************************************************)
(* C7: without --history and --help, a command line that leaves no prompt  *)
(* text once the recognised options (--wide, --expire, a consumed 24h/30d) *)
(* are removed ends in a usage error with exit status 1; no request is     *)
(* issued and the history file is not written.                             *)
(***************************************************************************)
C7_NoPromptIsUsageError ==
    (OnGenerateBranch /\ Strip(tokens) = <<>>) =>
        /\ pc = "EXITED"
        /\ branch = "usage_error"
        /\ exit_status = <<1>>
        /\ requests = <<>>
        /\ ~Wrote("history")
        /\ history_file = history_before

(***************************************************************************)
(* C8: with a credential absent or empty the run ends with exit status 1   *)
(* before any request and before the history file is read or written,      *)
(* whatever the arguments are, --history and --help included.              *)
(***************************************************************************)
C8_MissingCredentialStopsRun ==
    MissingCredential =>
        /\ pc \in {"START", "EXITED"}
        /\ pc = "EXITED" => (exit_status = <<1>> /\ branch = "config_error")
        /\ requests = <<>>
        /\ file_ops = <<>>
        /\ history_file = history_before

C8_Witness ==
    /\ pc = "EXITED"
    /\ exit_status = <<1>>
    /\ openai_api_key = "key"
    /\ cloudflare_api_token = ""
    /\ cloudflare_account_id = "key"
    /\ HasToken("--history")
    /\ history_file.exists

(***************************************************************************)
(* C9: with the credentials present, --history anywhere among the tokens   *)
(* selects the history branch whatever the other tokens are (it wins over  *)
(* --help and over the missing-prompt check); the branch issues no         *)
(* request, writes neither the history file nor the preview file and exits *)
(* with status 0; without a history file it reports "no history".          *)
(***************************************************************************)
C9_HistoryBranchWins ==
    (~MissingCredential /\ HasToken("--history") /\ pc \notin {"START", "DISPATCH"}) =>
        /\ branch = "history"
        /\ pc = "EXITED"
        /\ exit_status = <<0>>
        /\ requests = <<>>
        /\ ~Wrote("history")
        /\ ~Touched("preview")
        /\ history_file = history_before
        /\ tmp_file = <<"absent">>
        /\ ~history_file.exists => console = << <<"warn", "No history found.">> >>

C9_Witness ==
    /\ sys_argv = <<ProgName, "--help", "--history">>
    /\ branch = "history"
    /\ pc = "EXITED"
    /\ exit_status = <<0>>
    /\ ~history_file.exists
    /\ console = << <<"warn", "No history found.">> >>

(***************************************************************************)
(* C10: on the generate branch the stages follow one another only in the   *)
(* order GENERATING, DECODING, UPLOADING, PREVIEWING, RECORDING, DONE; at  *)
(* most one generation request and one upload request are issued, the      *)
(* upload only after the generation succeeded, the history file is written *)
(* only after the upload succeeded and the preview stage ended, and a      *)
(* failure of a stage other than PREVIEWING leads straight to FAILED (exit *)
(* status 1) with no later stage run.                                      *)
(***************************************************************************)
StageOrder ==
    << "GENERATING", "DECODING", "UPLOADING", "PREVIEWING", "RECORDING", "DONE" >>

StageIndex(st) == CHOOSE k \in 1..Len(StageOrder) : StageOrder[k] = st

IsStage(st) == \E k \in 1..Len(StageOrder) : StageOrder[k] = st

\* one step of pc within the pipeline: to the next stage, or to FAILED
StageStep ==
    (IsStage(pc) /\ pc' # pc) =>
        \/ pc' = "FAILED" /\ exit_status' = <<1>>
        \/ /\ IsStage(pc')
           /\ StageIndex(pc') = StageIndex(pc) + 1

StagesInOrder ==
    /\ Cardinality(Requests("POST", "openai")) <= 1
    /\ Cardinality(Requests("POST", "cloudflare")) <= 1
    /\ Requests("POST", "cloudflare") # {} =>
          /\ ~GenerationFailed
          /\ ~DecodeFailed
          /\ Requests("POST", "openai") = {1}
          /\ Requests("POST", "cloudflare") = {2}
    /\ (Wrote("history") \/ history_file # history_before) =>
          /\ Len(responses) >= 2
          /\ ~UploadFailed
          /\ preview # "none"
          /\ pc = "DONE"
    /\ GenerationFailed =>
          (pc = "FAILED" /\ exit_status = <<1>> /\ Len(requests) = 1
             /\ image_data = <<>> /\ file_ops = <<>>)
    /\ DecodeFailed =>
          (pc = "FAILED" /\ exit_status = <<1>> /\ Len(requests) = 1
             /\ file_ops = <<>>)
    /\ UploadFailed =>
          (pc = "FAILED" /\ exit_status = <<1>> /\ Len(requests) = 2
             /\ preview = "none" /\ file_ops = <<>>)
    /\ failed_stage = "RECORDING" => (pc = "FAILED" /\ exit_status = <<1>>)
    /\ pc = "DONE" => exit_status = <<0>>

C10_StageOrder == [][StageStep]_vars /\ []StagesInOrder

C10_Witness ==
    /\ pc = "DONE"
    /\ Len(requests) = 3
    /\ preview = "download_failed"
    /\ Wrote("history")
    /\ history_before.exists

====
